---- MODULE Spec2Model ----
(***************************************************************************)
(* Monthly stochastic scanner (src/scanner_app.py): the oscillator         *)
(* calculate_stochastic, the classifier get_signal and the batch loop      *)
(* scan_tickers.                                                           *)
(*                                                                         *)
(* Numbers.  Prices are integers in thousandths of the currency unit.  A   *)
(* float64 of the indicator is a record [k, v]: k = "num" with v the value *)
(* in units of 1/Unit(k_smooth, d_smooth) percent, k = "nan" (pandas' NaN, *)
(* the undefined value) or k = "inf" with v the sign.  With the candles of *)
(* this model every division is exact, so the arithmetic below is the      *)
(* exact-rational reading of the float arithmetic of the code.             *)
(***************************************************************************)
EXTENDS Integers, Sequences, FiniteSets, TLC

\* ------------------------------------------------------------ float64 --

NaN == [k |-> "nan", v |-> 0]
Num(x) == [k |-> "num", v |-> x]
Inf(sign) == [k |-> "inf", v |-> sign]

IsNaN(a) == a.k = "nan"
IsNum(a) == a.k = "num"
notna(a) == a.k # "nan"

Sign(x) == IF x < 0 THEN -1 ELSE 1

FNeg(a) == IF a.k = "nan" THEN NaN ELSE [k |-> a.k, v |-> 0 - a.v]

FAdd(a, b) ==
    IF IsNaN(a) \/ IsNaN(b) THEN NaN
    ELSE IF a.k = "inf" /\ b.k = "inf" THEN (IF a.v = b.v THEN a ELSE NaN)
    ELSE IF a.k = "inf" THEN a
    ELSE IF b.k = "inf" THEN b
    ELSE Num(a.v + b.v)

FSub(a, b) == FAdd(a, FNeg(b))

\* a * c for an integer constant c > 0
FScale(c, a) == IF IsNum(a) THEN Num(c * a.v) ELSE a

\* a division in which every x/0, 0/0 included, is an infinity
FDivNoNaN(a, b) ==
    IF IsNaN(a) \/ IsNaN(b) THEN NaN
    ELSE IF a.k = "inf" /\ b.k = "inf" THEN NaN
    ELSE IF a.k = "inf" THEN Inf(a.v * Sign(b.v))
    ELSE IF b.k = "inf" THEN Num(0)
    ELSE IF b.v = 0 THEN Inf(Sign(a.v))
    ELSE Num(a.v \div b.v)

\* IEEE division as numpy performs it on a float64 column: 0/0 is NaN and
\* x/0 is a signed infinity; no exception is raised.
FDiv(a, b) ==
    IF IsNaN(a) \/ IsNaN(b) THEN NaN
    ELSE IF a.k = "inf" /\ b.k = "inf" THEN NaN
    ELSE IF a.k = "inf" THEN Inf(a.v * Sign(b.v))
    ELSE IF b.k = "inf" THEN Num(0)
    ELSE IF b.v = 0 THEN (IF a.v = 0 THEN NaN ELSE Inf(Sign(a.v)))
    ELSE Num(a.v \div b.v)

\* Python's float comparison a > b: False as soon as one side is NaN
FGt(a, b) ==
    IF IsNaN(a) \/ IsNaN(b) THEN FALSE
    ELSE IF a.k = "inf" /\ b.k = "inf" THEN a.v > b.v
    ELSE IF a.k = "inf" THEN a.v > 0
    ELSE IF b.k = "inf" THEN b.v < 0
    ELSE a.v > b.v

\* --------------------------------------------------------------- pandas --

SetMin(S) == CHOOSE x \in S : \A y \in S : x <= y
SetMax(S) == CHOOSE x \in S : \A y \in S : x >= y

\* a Series held as an explicit sequence of its values
Series(f) == f \o <<>>

Column(df, col) == Series([i \in 1..Len(df) |-> df[i][col]])

\* Series.rolling(window=w).min() of a column without missing prices:
\* min_periods defaults to the window, so the first w-1 entries are NaN.
rolling_min(s, w) ==
    Series([i \in 1..Len(s) |->
        IF i < w THEN NaN ELSE Num(SetMin({s[j] : j \in (i - w + 1)..i}))])

rolling_max(s, w) ==
    Series([i \in 1..Len(s) |->
        IF i < w THEN NaN ELSE Num(SetMax({s[j] : j \in (i - w + 1)..i}))])

\* the sum of the observations (the non-NaN entries) of s[lo..hi]
RECURSIVE window_sum(_, _, _)
window_sum(s, lo, hi) ==
    IF hi < lo THEN Num(0)
    ELSE IF notna(s[hi]) THEN FAdd(window_sum(s, lo, hi - 1), s[hi])
    ELSE window_sum(s, lo, hi - 1)

window_nobs(s, lo, hi) == Cardinality({j \in lo..hi : notna(s[j])})

WindowStart(i, w) == IF i - w + 1 < 1 THEN 1 ELSE i - w + 1

\* a rolling mean that skips missing values (min_periods=1)
rolling_mean_skipna(s, w) ==
    Series([i \in 1..Len(s) |->
        LET lo == WindowStart(i, w)
            nobs == window_nobs(s, lo, i)
        IN  IF nobs >= 1 THEN FDiv(window_sum(s, lo, i), Num(nobs)) ELSE NaN])

\* Series.rolling(window=w).mean(): pandas keeps, for the window ending at
\* each entry, the sum and the number of its non-NaN observations; the entry
\* has a value when that number reaches min_periods (= w).
rolling_mean(s, w) ==
    Series([i \in 1..Len(s) |->
        LET lo == WindowStart(i, w)
            nobs == window_nobs(s, lo, i)
        IN  IF nobs >= w THEN FDiv(window_sum(s, lo, i), Num(nobs)) ELSE NaN])

\* Series.dropna(): the index labels (positions) of the defined entries, in
\* order; .values[-j] is then the entry at the j-th label from the end.
dropna(s) == SelectSeq([j \in 1..Len(s) |-> j], LAMBDA j : notna(s[j]))

\* ------------------------------------------------- calculate_stochastic --

DefaultK == 14
DefaultKSmooth == 6
DefaultDSmooth == 3

\* the denominator of the "num" values of one call
Unit(k_smooth, d_smooth) == k_smooth * d_smooth

\* the rolling minimum taken of the wrong column
low_min_of_high(df, k) == rolling_min(Column(df, "High"), k)

low_min(df, k) == rolling_min(Column(df, "Low"), k)

high_max(df, k) == rolling_max(Column(df, "High"), k)

\* 100 * (Close - low_min) / (high_max - low_min)
percent_k(df, k, unit) ==
    LET lo == low_min(df, k)
        hi == high_max(df, k)
    IN  Series([i \in 1..Len(df) |->
            FDiv(FScale(100 * unit, FSub(Num(df[i].Close), lo[i])),
                 FSub(hi[i], lo[i]))])

\* the length guard with the comparison off by one
TooShortOffByOne(n, k, k_smooth, d_smooth) == n <= k + k_smooth + d_smooth

\* the length guard of calculate_stochastic
TooShort(n, k, k_smooth, d_smooth) == n < k + k_smooth + d_smooth

\* The frame of calculate_stochastic at its return: the two returned Series
\* (K, D) and the local raw %K.  The early return gives two empty Series.
calculate_stochastic(df, k, k_smooth, d_smooth) ==
    IF TooShort(Len(df), k, k_smooth, d_smooth)
    THEN [K |-> <<>>, D |-> <<>>, raw |-> <<>>]
    ELSE LET unit == Unit(k_smooth, d_smooth)
             raw == percent_k(df, k, unit)
             ks == rolling_mean(raw, k_smooth)
         IN  [K |-> ks, D |-> rolling_mean(ks, d_smooth), raw |-> raw]

\* ------------------------------------------------------------ get_signal --

get_signal_ge(k_val, d_val) ==
    IF FGt(k_val, d_val) \/ k_val = d_val THEN "Bullish" ELSE "Bearish"

get_signal(k_val, d_val) == IF FGt(k_val, d_val) THEN "Bullish" ELSE "Bearish"

\* ------------------------------------------------------------- the data --

\* A price of the model, in thousandths: a level on a grid of 0.404, so that
\* the levels 1, 2 and 3 fall below 0.50, between 0.50 and 1.00, and above
\* 1.00.  The levels are evenly spaced, which keeps every raw %K a whole
\* number of percent (0, 50 or 100).
Price(level) == 404 * level

Candle(o, h, l, c) ==
    [Open |-> Price(o), High |-> Price(h), Low |-> Price(l), Close |-> Price(c)]

Flat   == Candle(2, 2, 2, 2)
Up     == Candle(1, 3, 1, 3)
Down   == Candle(3, 3, 1, 1)
Mid    == Candle(2, 3, 1, 2)

\* every candle has Low <= Open, Close <= High
ValidCandle(c) ==
    /\ c.Low <= c.Open /\ c.Open <= c.High
    /\ c.Low <= c.Close /\ c.Close <= c.High

Rep(c, n) == [j \in 1..n |-> c]
Cycle(pat, n) == [j \in 1..n |-> pat[((j - 1) % Len(pat)) + 1]]
Take(s, n) == SubSeq(s, 1, n)

RECURSIVE SeqsOfLen(_, _)
SeqsOfLen(S, n) ==
    IF n = 0 THEN {<<>>}
    ELSE {Append(s, x) : s \in SeqsOfLen(S, n - 1), x \in S}

SeqsUpTo(S, n) == UNION {SeqsOfLen(S, m) : m \in 0..n}

\* ---------------------------------------------------------- scan_tickers --

\* len(df) < 50, and the price floors 0.50 and 1.00 in thousandths
MinPeriods == 50
AsxFloor == 500
UsFloor == 1000

UsSources == {"us_stocks", "nasdaq", "nyse", "s_p_500"}

\* a history requirement one month too lax
short_history_lax(df) == df = <<>> \/ Len(df) < MinPeriods - 1

\* line 43: df.empty or len(df) < 50
short_history(df) == df = <<>> \/ Len(df) < MinPeriods

\* line 57: percent_k.empty or percent_d.empty or len(percent_k.dropna()) < 2
no_indicator(st) == st.K = <<>> \/ st.D = <<>> \/ Len(dropna(st.K)) < 2

\* str.strip() of the tickers of the model
strip(t) == IF t \in {"", " ", "  "} THEN "" ELSE t

\* df.index: the monthly index starts in January 2000, so period j is the
\* month j - 1 months later
PeriodMonth(j) == j - 1

Pad2(n) == IF n < 10 THEN "0" \o ToString(n) ELSE ToString(n)

\* Timestamp.strftime("%Y-%m-%d") of the month-start date of a period
strftime(m) ==
    ToString(2000 + (m \div 12)) \o "-" \o Pad2((m % 12) + 1) \o "-01"

\* round half to even of num / den, num >= 0
RoundDiv(num, den) ==
    LET q == num \div den
        r == num % den
    IN  IF 2 * r > den \/ (2 * r = den /\ q % 2 = 1) THEN q + 1 ELSE q

\* round(price, 2): thousandths to hundredths
round_price(p) == RoundDiv(p, 10)

\* round(value, 2) of a defined indicator value: hundredths of a percent
round_value(a, unit) == RoundDiv(100 * a.v, unit)

\* the price filters of the two groups of markets
below_floor(source, close) ==
    \/ source = "asx" /\ close < AsxFloor
    \/ source \in UsSources /\ close < UsFloor

\* yf.Ticker(ticker).info.get("shortName", "N/A") inside its own try/except
lookup_name(info) == IF info \in {"raise", "missing"} THEN "N/A" ELSE info

\* the Buy flag raised on every Bullish month
buy_flag_any_bullish(previous_signal, current_signal) ==
    IF current_signal = "Bullish" THEN "Yes" ELSE ""

buy_flag(previous_signal, current_signal) ==
    IF previous_signal = "Bearish" /\ current_signal = "Bullish" THEN "Yes" ELSE ""

\* The locals of one iteration that reaches results.append, given the frame
\* st of its call of calculate_stochastic.  at_* are the index labels behind
\* .dropna().values[-1] and [-2]; n_k is len(percent_k.dropna()).
Locals(st) ==
    LET kx == dropna(st.K)
        dx == dropna(st.D)
        k_now == st.K[kx[Len(kx)]]
        d_now == st.D[dx[Len(dx)]]
        k_prev == st.K[kx[Len(kx) - 1]]
        d_prev == st.D[dx[Len(dx) - 1]]
        current_signal == get_signal(k_now, d_now)
        previous_signal == get_signal(k_prev, d_prev)
    IN  [k_now |-> k_now, d_now |-> d_now, k_prev |-> k_prev, d_prev |-> d_prev,
         at_k_now |-> kx[Len(kx)], at_d_now |-> dx[Len(dx)],
         at_k_prev |-> kx[Len(kx) - 1], at_d_prev |-> dx[Len(dx) - 1],
         n_k |-> Len(kx),
         current_signal |-> current_signal,
         previous_signal |-> previous_signal,
         buy |-> buy_flag(previous_signal, current_signal)]

Row(entry, feed, loc) ==
    LET df == feed.df
        last_row == df[Len(df)]
        unit == Unit(DefaultKSmooth, DefaultDSmooth)
    IN  [Ticker |-> entry.ticker,
         Name |-> lookup_name(feed.info),
         Date |-> strftime(PeriodMonth(Len(df))),
         Open |-> round_price(last_row.Open),
         High |-> round_price(last_row.High),
         Low |-> round_price(last_row.Low),
         Close |-> round_price(last_row.Close),
         Signal |-> loc.current_signal,
         Buy |-> loc.buy]
        @@ ("%K" :> round_value(loc.k_now, unit))
        @@ ("%D" :> round_value(loc.d_now, unit))

\* how far one iteration gets: the name of the statement that ends it
Outcome(entry, feed) ==
    IF strip(entry.ticker) = "" THEN "blank"
    ELSE IF feed.kind = "error" THEN "download_error"
    ELSE IF short_history(feed.df) THEN "short"
    ELSE IF feed.kind = "malformed" THEN "malformed"
    ELSE IF below_floor(entry.source, feed.df[Len(feed.df)].Close) THEN "floor"
    ELSE LET st == calculate_stochastic(feed.df, DefaultK, DefaultKSmooth,
                                        DefaultDSmooth)
         IN  IF no_indicator(st) THEN "no_indicator"
             ELSE IF Len(dropna(st.D)) < 2 THEN "index_error"
             ELSE "row"

\* ------------------------------------------------------------ the inputs --

MaxTickers == 2
TailLen == 3
MaxLen == 6

OkFeed(df, info) == [kind |-> "ok", df |-> df, info |-> info]

HistoryLen == MinPeriods - TailLen
GapLen == DefaultK + DefaultKSmooth

\* three histories: a varied one, a flat one, and a varied one that ends in
\* a flat run long enough to leave a hole in %K
History(h) ==
    CASE h = "varied" -> Cycle(<<Up, Down, Mid>>, HistoryLen)
      [] h = "flat"   -> Rep(Flat, HistoryLen)
      [] h = "gap"    -> Cycle(<<Up, Down>>, HistoryLen - GapLen) \o Rep(Flat, GapLen)

Histories == {"varied", "flat", "gap"}
TailCandles == {Flat, Up, Down}
FlatRuns == {0, 4, 5, 6, DefaultK}

\* a history, TailLen free months, then a run of flat months
BigSeries ==
    {History(h) \o t \o Rep(Flat, f) :
        h \in Histories, t \in SeqsOfLen(TailCandles, TailLen), f \in FlatRuns}

Rising == History("varied") \o Rep(Up, TailLen)
Falling == History("varied") \o Rep(Down, TailLen)
Middling == History("varied") \o Rep(Mid, TailLen)

\* the symbols of the batches: [ticker, source, feed]
Universe ==
    { [ticker |-> " ", source |-> "asx", feed |-> OkFeed(Rising, "Blank")],
      [ticker |-> "ERR", source |-> "nyse",
       feed |-> [kind |-> "error", df |-> <<>>, info |-> "raise"]],
      [ticker |-> "NEW.AX", source |-> "asx",
       feed |-> OkFeed(Take(Rising, MinPeriods - 1), "Newly Listed")],
      [ticker |-> "GONE", source |-> "nyse", feed |-> OkFeed(<<>>, "missing")],
      [ticker |-> "BAD", source |-> "nasdaq",
       feed |-> [kind |-> "malformed", df |-> Rising, info |-> "missing"]],
      [ticker |-> "PENNY.AX", source |-> "asx", feed |-> OkFeed(Falling, "Penny")],
      [ticker |-> "MID.AX", source |-> "asx", feed |-> OkFeed(Middling, "Mid")],
      [ticker |-> "CHEAP", source |-> "nyse", feed |-> OkFeed(Middling, "Cheap")],
      [ticker |-> "EURUSD=X", source |-> "currencies",
       feed |-> OkFeed(Falling, "missing")],
      [ticker |-> "AAPL", source |-> "s_p_500", feed |-> OkFeed(Rising, "Apple Inc.")],
      [ticker |-> "MSFT", source |-> "nasdaq", feed |-> OkFeed(Rising, "raise")],
      [ticker |-> "FLAT", source |-> "currencies",
       feed |-> OkFeed(Rep(Flat, MinPeriods), "Flat")],
      [ticker |-> "IDX", source |-> "currencies",
       feed |-> OkFeed(Rep(Flat, MinPeriods - 1) \o <<Up>> \o Rep(Flat, DefaultKSmooth),
                       "Index")] }

BigEntries ==
    {[ticker |-> "TEST", source |-> "currencies", feed |-> OkFeed(s, "Test Co")] :
        s \in BigSeries}

Batches == SeqsUpTo(Universe, MaxTickers) \cup {<<e>> : e \in BigEntries}

\* the direct calls of calculate_stochastic
Windows == {1, 2}
SmallCandles == {Flat, Up, Down}
ProbeLens == {10, 22, 23, 24}

LongSeries ==
    BigSeries \cup {Take(History(h), n) : h \in Histories, n \in ProbeLens}

Calls ==
    {[df |-> s, k |-> k, k_smooth |-> ks, d_smooth |-> ds] :
        s \in SeqsUpTo(SmallCandles, MaxLen),
        k \in Windows, ks \in Windows, ds \in Windows}
    \cup
    {[df |-> s, k |-> DefaultK, k_smooth |-> DefaultKSmooth,
      d_smooth |-> DefaultDSmooth] : s \in LongSeries}

NoCall == [df |-> <<>>, k |-> 0, k_smooth |-> 0, d_smooth |-> 0]
NoFrame == [K |-> <<>>, D |-> <<>>, raw |-> <<>>]

\* ------------------------------------------------------------- the state --

VARIABLES
    ticker_map,   \* scan_tickers' argument: the list of [ticker, source]
    yf,           \* what the data provider answers for each entry of the list
    i,            \* the position of the for loop in ticker_map
    results,      \* the list of rows
    row_locals,   \* for each row, the entry and the locals of its iteration
    pc,           \* "scan", "done" | "call", "returned"
    call,         \* the arguments of a direct call of calculate_stochastic
    frame         \* the frame that call returns

vars == <<ticker_map, yf, i, results, row_locals, pc, call, frame>>

Init ==
    /\ \E batch \in Batches :
        /\ ticker_map = [j \in 1..Len(batch) |->
                            [ticker |-> batch[j].ticker, source |-> batch[j].source]]
        /\ yf = [j \in 1..Len(batch) |-> batch[j].feed]
    /\ i = 1
    /\ results = <<>>
    /\ row_locals = <<>>
    /\ pc = "scan"
    /\ call = NoCall
    /\ frame = NoFrame

InLoop == pc = "scan" /\ i <= Len(ticker_map)

\* `continue`: the next entry of the list
Continue ==
    /\ i' = i + 1
    /\ UNCHANGED <<ticker_map, yf, results, row_locals, pc, call, frame>>

\* an exception that leaves the function instead of the iteration
abort_batch(j, n) == n + 1

\* `except: continue`: the position after an iteration that raised
after_except(j, n) == j + 1

Caught ==
    /\ i' = after_except(i, Len(ticker_map))
    /\ UNCHANGED <<ticker_map, yf, results, row_locals, pc, call, frame>>

Stochastic(df) ==
    calculate_stochastic(df, DefaultK, DefaultKSmooth, DefaultDSmooth)

\* line 39: a blank ticker
SkipBlank ==
    /\ InLoop
    /\ strip(ticker_map[i].ticker) = ""
    /\ Continue

\* line 42: yf.download raises
DownloadRaises ==
    /\ InLoop
    /\ strip(ticker_map[i].ticker) # ""
    /\ yf[i].kind = "error"
    /\ Caught

\* line 44: too little history
SkipShort ==
    /\ InLoop
    /\ strip(ticker_map[i].ticker) # ""
    /\ yf[i].kind # "error"
    /\ short_history(yf[i].df)
    /\ Continue

\* line 48: a frame without the OHLC columns
MalformedRaises ==
    /\ InLoop
    /\ strip(ticker_map[i].ticker) # ""
    /\ yf[i].kind = "malformed"
    /\ ~short_history(yf[i].df)
    /\ Caught

Priced ==
    /\ InLoop
    /\ strip(ticker_map[i].ticker) # ""
    /\ yf[i].kind = "ok"
    /\ ~short_history(yf[i].df)

\* lines 51-54: the price filters
SkipFloor ==
    /\ Priced
    /\ below_floor(ticker_map[i].source, yf[i].df[Len(yf[i].df)].Close)
    /\ Continue

\* an iteration that reaches calculate_stochastic (line 56)
Evaluated ==
    /\ Priced
    /\ ~below_floor(ticker_map[i].source, yf[i].df[Len(yf[i].df)].Close)

\* line 57: fewer than two defined %K
SkipNoIndicator ==
    /\ Evaluated
    /\ no_indicator(Stochastic(yf[i].df))
    /\ Continue

\* lines 62-64: .values[-1] or .values[-2] of a %D with fewer than two
\* defined values raises IndexError
IndexErrorRaised ==
    /\ Evaluated
    /\ LET st == Stochastic(yf[i].df)
       IN  ~no_indicator(st) /\ Len(dropna(st.D)) < 2
    /\ Caught

\* lines 61-87: the row
AppendRow ==
    /\ Evaluated
    /\ LET st == Stochastic(yf[i].df)
           loc == Locals(st)
       IN  /\ ~no_indicator(st)
           /\ Len(dropna(st.D)) >= 2
           /\ results' = Append(results, Row(ticker_map[i], yf[i], loc))
           /\ row_locals' = Append(row_locals, [at |-> i] @@ loc)
    /\ i' = i + 1
    /\ UNCHANGED <<ticker_map, yf, pc, call, frame>>

\* line 92: return pd.DataFrame(results)
Return ==
    /\ pc = "scan"
    /\ i > Len(ticker_map)
    /\ pc' = "done"
    /\ UNCHANGED <<ticker_map, yf, i, results, row_locals, call, frame>>

Next ==
    \/ SkipBlank
    \/ DownloadRaises
    \/ SkipShort
    \/ MalformedRaises
    \/ SkipFloor
    \/ SkipNoIndicator
    \/ IndexErrorRaised
    \/ AppendRow
    \/ Return

Spec == Init /\ [][Next]_vars

\* ---------------------------------- calculate_stochastic called directly --

InitCall ==
    /\ call \in Calls
    /\ frame = NoFrame
    /\ pc = "call"
    /\ ticker_map = <<>>
    /\ yf = <<>>
    /\ i = 1
    /\ results = <<>>
    /\ row_locals = <<>>

CallStochastic ==
    /\ pc = "call"
    /\ frame' = calculate_stochastic(call.df, call.k, call.k_smooth, call.d_smooth)
    /\ pc' = "returned"
    /\ UNCHANGED <<ticker_map, yf, i, results, row_locals, call>>

NextCall == CallStochastic

SpecCall == InitCall /\ [][NextCall]_vars

\* =============================================================== claims --

RowDf(r) == yf[row_locals[r].at].df
Rows == 1..Len(results)

\* C1: in every report row Buy is "Yes" exactly when get_signal of the
\* previous pair is "Bearish" and get_signal of the current pair is
\* "Bullish", and is empty otherwise.
C1_BuyIffCrossover ==
    \A r \in Rows :
        LET loc == row_locals[r]
            crossover == /\ get_signal(loc.k_prev, loc.d_prev) = "Bearish"
                         /\ get_signal(loc.k_now, loc.d_now) = "Bullish"
        IN  /\ results[r].Buy = (IF crossover THEN "Yes" ELSE "")
            /\ results[r].Signal = get_signal(loc.k_now, loc.d_now)

\* a Buy row (%K below %D, then above) next to a Bullish-to-Bullish row
\* without the flag
C1_Witness ==
    /\ \E r \in Rows :
        /\ results[r].Buy = "Yes"
        /\ row_locals[r].k_prev.v < row_locals[r].d_prev.v
        /\ row_locals[r].k_now.v > row_locals[r].d_now.v
    /\ \E r \in Rows :
        /\ results[r].Buy = ""
        /\ row_locals[r].previous_signal = "Bullish"
        /\ row_locals[r].current_signal = "Bullish"

\* C2: get_signal is "Bullish" exactly when k > d, so a tie is "Bearish".
C2_StrictClassification ==
    \A r \in Rows :
        LET loc == row_locals[r]
        IN  /\ (loc.current_signal = "Bullish") = (loc.k_now.v > loc.d_now.v)
            /\ (loc.current_signal = "Bearish") = (loc.k_now.v <= loc.d_now.v)
            /\ (loc.previous_signal = "Bullish") = (loc.k_prev.v > loc.d_prev.v)
            /\ (loc.previous_signal = "Bearish") = (loc.k_prev.v <= loc.d_prev.v)

\* a tie classified Bearish
C2_Witness ==
    \E r \in Rows :
        /\ row_locals[r].k_now = row_locals[r].d_now
        /\ row_locals[r].current_signal = "Bearish"
        /\ results[r].Signal = "Bearish"

\* C3: the reported %K and %D are the values of the latest period, the
\* period whose Date and OHLC the row reports.
C3_LatestPeriod ==
    \A r \in Rows :
        LET loc == row_locals[r]
            n == Len(RowDf(r))
        IN  /\ results[r].Date = strftime(PeriodMonth(n))
            /\ loc.at_k_now = n
            /\ loc.at_d_now = n

\* C4: the previous pair is the %K and %D of one period, the period just
\* before that of the current pair.
C4_ConsecutivePeriods ==
    \A r \in Rows :
        LET loc == row_locals[r]
        IN  /\ loc.at_k_prev = loc.at_d_prev
            /\ loc.at_k_now = loc.at_d_now
            /\ loc.at_k_prev = loc.at_k_now - 1

DefinedCount(s) == Cardinality({j \in 1..Len(s) : notna(s[j])})

Eligible(df) ==
    /\ Len(df) >= MinPeriods
    /\ LET st == Stochastic(df)
       IN  DefinedCount(st.K) >= 2 /\ DefinedCount(st.D) >= 2

\* C5: every row of the returned report belongs to a series of at least 50
\* periods whose %K and %D each have at least two defined values; every
\* other symbol has no row (the rows are those of distinct visited entries).
C5_RowOnlyWhenEligible ==
    /\ Len(row_locals) = Len(results)
    /\ \A r \in Rows :
        /\ row_locals[r].at < i
        /\ results[r].Ticker = ticker_map[row_locals[r].at].ticker
    /\ \A r, q \in Rows : r < q => row_locals[r].at < row_locals[q].at
    /\ pc = "done" => \A r \in Rows : Eligible(RowDf(r))

\* a symbol with 50 periods and two defined %K but fewer than two defined
\* %D ends without a row
C5_Witness ==
    /\ pc = "done"
    /\ Len(ticker_map) = 1
    /\ results = <<>>
    /\ yf[1].kind = "ok"
    /\ Len(yf[1].df) >= MinPeriods
    /\ DefinedCount(Stochastic(yf[1].df).K) >= 2
    /\ DefinedCount(Stochastic(yf[1].df).D) < 2

\* the rows of the first n entries, each evaluated on its own
RECURSIVE ExpectedRows(_)
ExpectedRows(n) ==
    IF n = 0 THEN <<>>
    ELSE IF Outcome(ticker_map[n], yf[n]) = "row"
         THEN Append(ExpectedRows(n - 1),
                     Row(ticker_map[n], yf[n], Locals(Stochastic(yf[n].df))))
         ELSE ExpectedRows(n - 1)

\* an iteration can be taken: one of the early exits, or the evaluation
\* with one of its three ends
LoopCanStep ==
    \/ ENABLED (SkipBlank \/ DownloadRaises \/ SkipShort \/ MalformedRaises
                  \/ SkipFloor)
    \/ /\ Evaluated
       /\ LET st == Stochastic(yf[i].df)
          IN  \/ no_indicator(st)
              \/ ~no_indicator(st) /\ Len(dropna(st.D)) < 2
              \/ ~no_indicator(st) /\ Len(dropna(st.D)) >= 2

\* C6: the loop reaches the end of the list whatever fails on the way (every
\* entry not yet visited can be stepped over, and the function returns only
\* past the last one), and the report holds, in input order, exactly the
\* rows of the entries whose own evaluation succeeds.
C6_BatchIsolation ==
    /\ i <= Len(ticker_map) + 1
    /\ Len(results) <= i - 1
    /\ pc = "done" => i = Len(ticker_map) + 1
    /\ pc = "done" => results = ExpectedRows(Len(ticker_map))
    /\ (pc = "scan" /\ i <= Len(ticker_map)) => LoopCanStep
    /\ (pc = "scan" /\ i = Len(ticker_map) + 1) => ENABLED Return

\* a finished batch whose first entry raised and whose second has a row
C6_Witness ==
    /\ pc = "done"
    /\ Len(ticker_map) = 2
    /\ Outcome(ticker_map[1], yf[1]) \in {"download_error", "malformed", "index_error"}
    /\ Len(results) = 1
    /\ results[1].Ticker = ticker_map[2].ticker

Returned == pc = "returned"
Threshold == call.k + call.k_smooth + call.d_smooth
IsDefaultCall ==
    /\ call.k = DefaultK
    /\ call.k_smooth = DefaultKSmooth
    /\ call.d_smooth = DefaultDSmooth

\* C7: below k + k_smooth + d_smooth periods both Series are empty; from
\* that length on both have the length of the input.
C7_EmptyBelowThreshold ==
    Returned =>
        IF Len(call.df) < Threshold
        THEN frame.K = <<>> /\ frame.D = <<>>
        ELSE Len(frame.K) = Len(call.df) /\ Len(frame.D) = Len(call.df)

\* the defaults on a 22-period series
C7_Witness ==
    /\ Returned
    /\ IsDefaultCall
    /\ Len(call.df) = 22
    /\ frame.K = <<>>
    /\ frame.D = <<>>

InRange(a) ==
    \/ IsNaN(a)
    \/ IsNum(a) /\ 0 <= a.v /\ a.v <= 100 * Unit(call.k_smooth, call.d_smooth)

FlatWindow(j) ==
    /\ j >= call.k
    /\ SetMax({call.df[m].High : m \in (j - call.k + 1)..j})
         = SetMin({call.df[m].Low : m \in (j - call.k + 1)..j})

NoFlatWindow == \A j \in 1..Len(call.df) : ~FlatWindow(j)
BothDefined(j) == IsNum(frame.K[j]) /\ IsNum(frame.D[j])

\* C9 as stated: exactly k + k_smooth + d_smooth - 2 leading entries have
\* no defined pair, and every later entry has both values.
C9_LeadingUndefined ==
    (Returned /\ Len(call.df) >= Threshold /\ NoFlatWindow)
    =>  \A j \in 1..Len(call.df) : BothDefined(j) = (j > Threshold - 2)

\* C9 amended: exactly k + k_smooth + d_smooth - 3 leading entries have no
\* defined %D (the first k + k_smooth - 2 of them no defined %K either), and
\* every later entry has both values.
C9_LeadingUndefinedAmended ==
    (Returned /\ Len(call.df) >= Threshold /\ NoFlatWindow)
    =>  \A j \in 1..Len(call.df) :
            /\ IsNum(frame.D[j]) = (j > Threshold - 3)
            /\ IsNum(frame.K[j]) = (j > call.k + call.k_smooth - 2)
            /\ IsNaN(frame.D[j]) \/ IsNum(frame.D[j])
            /\ IsNaN(frame.K[j]) \/ IsNum(frame.K[j])

\* the defaults: entry 20 has %K and no %D, entry 21 has both
C9_Witness ==
    /\ Returned
    /\ IsDefaultCall
    /\ NoFlatWindow
    /\ Len(call.df) >= Threshold
    /\ IsNaN(frame.K[18]) /\ IsNum(frame.K[19])
    /\ IsNaN(frame.D[20]) /\ IsNum(frame.D[21])

RECURSIVE SumV(_, _, _)
SumV(s, lo, hi) == IF hi < lo THEN 0 ELSE s[hi].v + SumV(s, lo, hi - 1)

\* out[j] is defined exactly when the w entries in[j-w+1..j] all are, and is
\* then their arithmetic mean
MeanOfWindow(in, out, w) ==
    \A j \in 1..Len(in) :
        LET full == j >= w /\ \A m \in (j - w + 1)..j : IsNum(in[m])
        IN  /\ IsNum(out[j]) = full
            /\ ~full => IsNaN(out[j])
            /\ full => out[j].v * w = SumV(in, j - w + 1, j)

\* C10: raw %K is undefined over a flat window; smoothed %K is the mean of
\* the k_smooth raw values of its window when all are defined and undefined
\* otherwise; %D likewise over d_smooth smoothed values.
C10_UndefinedPropagation ==
    (Returned /\ Len(call.df) >= Threshold)
    =>  /\ \A j \in 1..Len(call.df) : FlatWindow(j) => IsNaN(frame.raw[j])
        /\ \A j \in 1..Len(call.df) : IsNaN(frame.raw[j]) \/ IsNum(frame.raw[j])
        /\ MeanOfWindow(frame.raw, frame.K, call.k_smooth)
        /\ MeanOfWindow(frame.K, frame.D, call.d_smooth)

\* a hole in raw %K that blanks some, not all, of the smoothed values
C10_Witness ==
    /\ Returned
    /\ Len(call.df) >= Threshold
    /\ \E j \in 2..Len(call.df) :
        /\ FlatWindow(j) /\ IsNaN(frame.raw[j])
        /\ IsNum(frame.raw[j - 1])
        /\ IsNaN(frame.K[j])
        /\ IsNum(frame.K[j - 1])
    /\ \E j \in 2..Len(call.df) : IsNum(frame.D[j]) /\ IsNaN(frame.D[j - 1]) /\ j > Threshold
    /\ \E j \in 2..Len(call.df) : IsNum(frame.D[j]) /\ frame.D[j] # frame.K[j]

====
